---- MODULE Spec2Model ----
(***************************************************************************)
(* SEIR epidemic simulation of "ODE-based Simulation_checkpoint.ipynb":    *)
(* seir_base_simulation (S,E,I,R) and seir_add_simulation (S,E,I,QE,QI,R). *)
(* Both routines are run on the same slider positions, side by side.       *)
(* Real numbers are exact rationals <<numerator, denominator>>.            *)
(***************************************************************************)
EXTENDS Integers, Sequences, FiniteSets

VARIABLES pc, args, t, y, ya, ret, reta, nsteps, fig

vars == <<pc, args, t, y, ya, ret, reta, nsteps, fig>>

(* ---------------- bounds of the explored inputs ---------------- *)
MaxN == 3
MaxI0 == 1
MaxE0 == 1
MaxT == 3
MaxSteps == 1
MaxComp == 1

(* ---------------- exact arithmetic on reals ---------------- *)
Abs(a) == IF a < 0 THEN -a ELSE a

RECURSIVE GCD(_, _)
GCD(a, b) == IF b = 0 THEN a ELSE GCD(b, a % b)

Rat(n, d) ==
    LET s == IF d < 0 THEN -1 ELSE 1
        g == GCD(Abs(n), Abs(d))
    IN  <<(s * n) \div g, (s * d) \div g>>

R(i) == <<i, 1>>

RNeg(a) == <<-a[1], a[2]>>

RAdd(a, b) ==
    LET g == GCD(a[2], b[2])
        l == (a[2] \div g) * b[2]
    IN  Rat(a[1] * (l \div a[2]) + b[1] * (l \div b[2]), l)

RSub(a, b) == RAdd(a, RNeg(b))

RMul(a, b) ==
    LET g1 == GCD(Abs(a[1]), b[2])
        g2 == GCD(Abs(b[1]), a[2])
    IN  <<(a[1] \div g1) * (b[1] \div g2), (a[2] \div g2) * (b[2] \div g1)>>

RDiv(a, b) == RMul(a, Rat(b[2], b[1]))

RNonNeg(a) == a[1] >= 0
RNonPos(a) == a[1] <= 0
RLeq(a, b) == RNonPos(RSub(a, b))
RLess(a, b) == RSub(a, b)[1] < 0

RECURSIVE RSum(_)
RSum(s) == IF s = <<>> THEN R(0) ELSE RAdd(Head(s), RSum(Tail(s)))

(* ---------------- slider positions explored ---------------- *)
PopSizes == {-1} \cup (1 .. MaxN)
Durations == -1 .. MaxT
BetaRates == {R(0), R(1)}
Rates == {R(0), <<1, 2>>}
StepSizes == {<<1, 2>>}
Quarantined == {0, 1}
Recovered == {0, 1}
RecoveredCounts == {0, 1}
Susceptible == {-1, 2}

NoArgs ==
    [N |-> 1, I0 |-> 0, R0 |-> 0, E0 |-> 0, beta |-> R(0), gamma |-> R(0),
     sigma |-> R(0), mu |-> R(0), q |-> R(0), t |-> 0]

(* ---------------- seir_base_simulation ---------------- *)

\* np.linspace(0, t, t) with the end point left out (endpoint=False)
linspace_open(stop, num) ==
    [i \in 1 .. num |-> RMul(R(i - 1), Rat(stop, num))]

\* np.linspace(0, t, t): num = t samples from 0 to t, endpoint included.
linspace(stop, num) ==
    IF num = 1 THEN <<R(0)>>
    ELSE [i \in 1 .. num |-> RMul(R(i - 1), Rat(stop, num - 1))]

\* S0 with the exposed left out
base_S0_noE0(N, I0, R0, E0) == N - I0 - R0

base_S0(N, I0, R0, E0) == N - I0 - R0 - E0

base_y0(N, I0, R0, E0) ==
    <<R(base_S0(N, I0, R0, E0)), R(E0), R(I0), R(R0)>>

base_dSdt(S, I, N, beta, mu) ==
    RSub(RMul(mu, RSub(R(N), S)), RDiv(RMul(RMul(beta, S), I), R(N)))

\* dEdt with the rates of leaving E subtracted from each other
base_dEdt_sign(S, E, I, N, beta, sigma, mu) ==
    RSub(RDiv(RMul(RMul(beta, S), I), R(N)), RMul(RSub(mu, sigma), E))

base_dEdt(S, E, I, N, beta, sigma, mu) ==
    RSub(RDiv(RMul(RMul(beta, S), I), R(N)), RMul(RAdd(mu, sigma), E))

base_dIdt(E, I, gamma, sigma, mu) ==
    RSub(RMul(sigma, E), RMul(RAdd(mu, gamma), I))

\* dRdt with its two terms swapped
base_dRdt_swapped(I, Rc, gamma, mu) == RSub(RMul(mu, Rc), RMul(gamma, I))

base_dRdt(I, Rc, gamma, mu) == RSub(RMul(gamma, I), RMul(mu, Rc))

deriv_base(yy, N, beta, gamma, sigma, mu) ==
    LET S == yy[1]
        E == yy[2]
        I == yy[3]
        Rc == yy[4]
    IN  <<base_dSdt(S, I, N, beta, mu),
          base_dEdt(S, E, I, N, beta, sigma, mu),
          base_dIdt(E, I, gamma, sigma, mu),
          base_dRdt(I, Rc, gamma, mu)>>

(* ---------------- seir_add_simulation ---------------- *)
QE0 == 0
QI0 == 0

add_S0(N, I0, R0, E0) == N - I0 - R0 - E0 - QE0 - QI0

add_y0(N, I0, R0, E0) ==
    <<R(add_S0(N, I0, R0, E0)), R(E0), R(I0), R(QE0), R(QI0), R(R0)>>

add_dSdt(S, I, N, beta, mu) ==
    RSub(RMul(mu, RSub(R(N), S)), RDiv(RMul(RMul(beta, S), I), R(N)))

\* dEdt with the division by N left out
add_dEdt_noN(S, E, I, N, beta, sigma, mu, q) ==
    RSub(RMul(RMul(beta, S), I), RMul(RAdd(RAdd(mu, sigma), q), E))

add_dEdt(S, E, I, N, beta, sigma, mu, q) ==
    RSub(RDiv(RMul(RMul(beta, S), I), R(N)),
         RMul(RAdd(RAdd(mu, sigma), q), E))

\* dIdt with the quarantined exposed turning infectious outside quarantine
add_dIdt_fromQE(E, I, QE, gamma, sigma, mu, q) ==
    RAdd(RSub(RMul(sigma, E), RMul(RAdd(RAdd(mu, gamma), q), I)),
         RMul(sigma, QE))

add_dIdt(E, I, QE, gamma, sigma, mu, q) ==
    RSub(RMul(sigma, E), RMul(RAdd(RAdd(mu, gamma), q), I))

add_dRdt(I, QI, Rc, gamma, mu) ==
    RAdd(RSub(RMul(gamma, I), RMul(mu, Rc)), RMul(gamma, QI))

add_dQEdt(E, QE, sigma, q) == RAdd(RMul(RNeg(sigma), QE), RMul(q, E))

\* dQIdt without the infected entering quarantine
add_dQIdt_noI(I, QE, QI, gamma, sigma, q) ==
    RAdd(RMul(RNeg(gamma), QI), RMul(sigma, QE))

add_dQIdt(I, QE, QI, gamma, sigma, q) ==
    RAdd(RAdd(RMul(RNeg(gamma), QI), RMul(sigma, QE)), RMul(q, I))

deriv_add(yy, N, beta, gamma, sigma, mu, q) ==
    LET S == yy[1]
        E == yy[2]
        I == yy[3]
        QE == yy[4]
        QI == yy[5]
        Rc == yy[6]
    IN  <<add_dSdt(S, I, N, beta, mu),
          add_dEdt(S, E, I, N, beta, sigma, mu, q),
          add_dIdt(E, I, QE, gamma, sigma, mu, q),
          add_dQEdt(E, QE, sigma, q),
          add_dQIdt(I, QE, QI, gamma, sigma, q),
          add_dRdt(I, QI, Rc, gamma, mu)>>

(* ---------------- odeint ---------------- *)

\* odeint (scipy, LSODA) advances the state along deriv in internal steps of
\* its own choice and samples it at the grid points. One internal step of the
\* integrator from state yy along derivative d, of size h; with the rates and
\* step sizes explored h * (mu + sigma + q) <= 1, so a step keeps the sign of
\* a compartment as the exact solution does.
step(yy, d, h) == [i \in 1 .. Len(yy) |-> RAdd(yy[i], RMul(h, d[i]))]

dbase(yy) ==
    deriv_base(yy, args.N, args.beta, args.gamma, args.sigma, args.mu)

dadd(yy) ==
    deriv_add(yy, args.N, args.beta, args.gamma, args.sigma, args.mu, args.q)

(* ---------------- output: ratio of people ---------------- *)
plot_base(rows, N) ==
    [k \in 1 .. Len(rows) |->
        [Susceptible |-> RDiv(rows[k][1], R(N)),
         Exposed |-> RDiv(rows[k][2], R(N)),
         Infected |-> RDiv(rows[k][3], R(N)),
         Recovered |-> RDiv(rows[k][4], R(N))]]

plot_add(rows, N) ==
    [k \in 1 .. Len(rows) |->
        [Susceptible |-> RDiv(rows[k][1], R(N)),
         Exposed |-> RDiv(RAdd(rows[k][2], rows[k][4]), R(N)),
         Infected |-> RDiv(RAdd(rows[k][3], rows[k][5]), R(N)),
         Recovered |-> RDiv(rows[k][6], R(N))]]

(* ---------------- the run ---------------- *)
Init ==
    /\ pc = "idle"
    /\ args = NoArgs
    /\ t = <<>>
    /\ y = <<>>
    /\ ya = <<>>
    /\ ret = <<>>
    /\ reta = <<>>
    /\ nsteps = 0
    /\ fig = <<>>

\* A call with the slider positions: S0, the time grid, y0, and the call of
\* odeint, which copies y0 into the first row of its output. On an empty time
\* grid (t = 0) odeint reads t[0] out of bounds: the call either fails or
\* returns a trajectory without rows.
Simulate ==
    /\ pc = "idle"
    /\ \E N \in PopSizes, I0 \in 0 .. MaxI0, R0 \in RecoveredCounts, E0 \in 0 .. MaxE0,
          beta \in BetaRates, gamma \in Rates, sigma \in Rates, mu \in Rates,
          q \in Rates, dur \in Durations :
          /\ args' = [N |-> N, I0 |-> I0, R0 |-> R0, E0 |-> E0, beta |-> beta,
                      gamma |-> gamma, sigma |-> sigma, mu |-> mu, q |-> q,
                      t |-> dur]
          /\ IF dur < 0
             THEN \* np.linspace raises ValueError for a negative sample count
                  /\ pc' = "error"
                  /\ UNCHANGED <<t, y, ya, ret, reta>>
             ELSE /\ t' = linspace(dur, dur)
                  /\ y' = base_y0(N, I0, R0, E0)
                  /\ ya' = add_y0(N, I0, R0, E0)
                  /\ IF dur = 0
                     THEN /\ pc' \in {"error", "plot"}
                          /\ UNCHANGED <<ret, reta>>
                     ELSE /\ pc' = "odeint"
                          /\ ret' = <<base_y0(N, I0, R0, E0)>>
                          /\ reta' = <<add_y0(N, I0, R0, E0)>>
    /\ UNCHANGED <<nsteps, fig>>

\* The integrator advances its internal state by a step of its own choice.
Advance(h) ==
    /\ pc = "odeint"
    /\ nsteps < MaxSteps
    /\ y' = step(y, dbase(y), h)
    /\ ya' = step(ya, dadd(ya), h)
    /\ nsteps' = nsteps + 1
    /\ UNCHANGED <<pc, args, t, ret, reta, fig>>

\* The integrator reaches the next point of the time grid and writes its row.
Emit ==
    /\ pc = "odeint"
    /\ Len(ret) < Len(t)
    /\ ret' = Append(ret, y)
    /\ reta' = Append(reta, ya)
    /\ UNCHANGED <<pc, args, t, y, ya, nsteps, fig>>

\* odeint returns: ret.T is unpacked into the series.
Return ==
    /\ pc = "odeint"
    /\ Len(ret) = Len(t)
    /\ pc' = "plot"
    /\ UNCHANGED <<args, t, y, ya, ret, reta, nsteps, fig>>

\* The curves S/N, E/N, I/N, R/N are drawn.
Plot ==
    /\ pc = "plot"
    /\ fig' = <<plot_base(ret, args.N), plot_add(reta, args.N)>>
    /\ pc' = "done"
    /\ UNCHANGED <<args, t, y, ya, ret, reta, nsteps>>

Next ==
    \/ Simulate
    \/ \E h \in StepSizes : Advance(h)
    \/ Emit
    \/ Return
    \/ Plot

Spec == Init /\ [][Next]_vars

(* ------------- the derivative functions on arbitrary state vectors ------------- *)
\* odeint calls deriv on state vectors of its own choice: here every vector of
\* small compartment values, whether or not it sums to N.
InitDeriv ==
    /\ pc = "odeint"
    /\ \E N \in PopSizes, beta \in BetaRates, gamma \in Rates, sigma \in Rates,
          mu \in Rates, q \in Rates :
          args = [NoArgs EXCEPT !.N = N, !.beta = beta, !.gamma = gamma,
                                !.sigma = sigma, !.mu = mu, !.q = q]
    /\ \E S \in Susceptible, E \in -1 .. MaxComp, I \in -1 .. MaxComp,
          QE \in Quarantined, QI \in Quarantined, Rc \in Recovered :
          /\ y = <<R(S), R(E), R(I), R(Rc)>>
          /\ ya = <<R(S), R(E), R(I), R(QE), R(QI), R(Rc)>>
    /\ t = <<>>
    /\ ret = <<>>
    /\ reta = <<>>
    /\ nsteps = 0
    /\ fig = <<>>

NextDeriv == \E h \in StepSizes : Advance(h)

SpecDeriv == InitDeriv /\ [][NextDeriv]_vars

(* ---------------- properties ---------------- *)
Built == y # <<>>

\* y0 was handed to odeint on a grid with at least one point
Integrating == pc \in {"odeint", "plot", "done"} /\ args.t >= 1

NonNegVec(v) == \A i \in 1 .. Len(v) : RNonNeg(v[i])

\* column c of the rows never decreases / never increases
NonDecreasing(rows, c) ==
    \A k \in 1 .. Len(rows) - 1 : RLeq(rows[k][c], rows[k + 1][c])

NonIncreasing(rows, c) ==
    \A k \in 1 .. Len(rows) - 1 : RLeq(rows[k + 1][c], rows[k][c])

SEIR(v) == <<v[1], v[2], v[3], v[6]>>

\* C1: the initial state vector handed to odeint sums to exactly N in both
\* variants (QE0 = QI0 = 0), also when I0 + E0 + R0 > N: S0 is then negative
\* and the run proceeds into the integrator without an error.
C1_InitialSumIsN ==
    (Built /\ nsteps = 0) =>
        /\ y = <<R(args.N - args.I0 - args.R0 - args.E0), R(args.E0),
                 R(args.I0), R(args.R0)>>
        /\ RSum(y) = R(args.N)
        /\ RSum(ya) = R(args.N)
        /\ ya[4] = R(0) /\ ya[5] = R(0)
        /\ SEIR(ya) = y
        /\ (args.t >= 1 => pc # "error" /\ ret[1] = y /\ reta[1] = ya)

C1_Witness ==
    /\ pc = "odeint" /\ nsteps = 0
    /\ args.N > 0
    /\ args.I0 + args.E0 + args.R0 > args.N
    /\ y[1][1] < 0
    /\ ret = <<y>> /\ reta = <<ya>>

\* C2 (as claimed): when mu > 0 the compartments sum to N at every reached
\* state and the derivative components sum to zero there, in both variants.
C2_MassConstant ==
    (Integrating /\ args.mu[1] > 0 /\ args.N >= 1) =>
        /\ RSum(y) = R(args.N)
        /\ RSum(dbase(y)) = R(0)
        /\ RSum(ya) = R(args.N)
        /\ RSum(dadd(ya)) = R(0)

\* C3: when mu = 0 the derivative components sum to zero at every state
\* vector, summing to N or not, and a step along the derivative leaves the
\* compartment sum unchanged, in both variants.
C3_ClosedPopulation ==
    /\ [](args.mu = R(0) =>
            /\ RSum(dbase(y)) = R(0)
            /\ RSum(dadd(ya)) = R(0))
    /\ [][args.mu = R(0) =>
            /\ RSum(y') = RSum(y)
            /\ RSum(ya') = RSum(ya)]_vars

C3_Witness ==
    /\ nsteps >= 1
    /\ args.mu = R(0)
    /\ args.beta # R(0) /\ args.q # R(0) /\ args.gamma # R(0) /\ args.sigma # R(0)
    /\ RSum(ya) # R(args.N)
    /\ ya[5] # R(0)
    /\ dadd(ya)[1] # R(0)

\* C4: with q = 0 (and QE0 = QI0 = 0) the quarantine variant stepped side by
\* side with the base variant keeps QE = QI = 0, has the same S, E, I, R at
\* every state and row, and its S, E, I, R derivative equals the base one.
C4_QuarantineOffIsBase ==
    (Built /\ args.q = R(0)) =>
        /\ ya[4] = R(0) /\ ya[5] = R(0)
        /\ SEIR(ya) = y
        /\ LET da == dadd(ya)
           IN  /\ SEIR(da) = dbase(y)
               /\ da[4] = R(0) /\ da[5] = R(0)
        /\ Len(reta) = Len(ret)
        /\ \A k \in 1 .. Len(ret) :
              /\ SEIR(reta[k]) = ret[k]
              /\ reta[k][4] = R(0) /\ reta[k][5] = R(0)

C4_Witness ==
    /\ pc = "done"
    /\ args.q = R(0)
    /\ nsteps >= 1
    /\ args.beta # R(0) /\ args.sigma # R(0) /\ args.gamma # R(0) /\ args.mu # R(0)
    /\ Len(ret) >= 2
    /\ ret[2] # ret[1]
    /\ \A i \in 1 .. 4 : dbase(y)[i] # R(0)

\* C5 (as claimed): when beta = 0 both the E and the I component of the
\* derivative are <= 0 at every reached state, and neither series ever rises.
C5_NoRiseOfEAndI ==
    (Integrating /\ args.beta = R(0) /\ args.N >= 1) =>
        /\ RNonPos(dbase(y)[2]) /\ RNonPos(dbase(y)[3])
        /\ RNonPos(dadd(ya)[2]) /\ RNonPos(dadd(ya)[3])
        /\ NonIncreasing(ret, 2) /\ NonIncreasing(ret, 3)
        /\ NonIncreasing(reta, 2) /\ NonIncreasing(reta, 3)

\* C5 (amended): when beta = 0 the E component of the derivative is <= 0 at
\* every reached state and the E series never rises, in both variants.
C5_NoRiseOfE ==
    (Built /\ args.beta = R(0)) =>
        /\ RNonPos(dbase(y)[2])
        /\ RNonPos(dadd(ya)[2])
        /\ RNonNeg(y[2]) /\ RNonNeg(ya[2])
        /\ NonIncreasing(ret, 2)
        /\ NonIncreasing(reta, 2)

C5_Witness ==
    /\ pc = "done"
    /\ args.beta = R(0)
    /\ nsteps >= 1
    /\ Len(ret) >= 2
    /\ RLess(ret[2][2], ret[1][2])
    /\ RLess(reta[2][2], ret[2][2])
    /\ y[2][1] > 0

\* C6 (as claimed): inside the slider ranges (N >= 1, I0 >= 1, E0 >= 0,
\* R0 = 0, rates >= 0) no compartment of the state handed to odeint or of any
\* row of the trajectory is negative.
C6_NonNegativeCompartments ==
    (Integrating /\ args.N >= 1 /\ args.I0 >= 1 /\ args.E0 >= 0 /\ args.R0 = 0) =>
        /\ NonNegVec(y) /\ NonNegVec(ya)
        /\ \A k \in 1 .. Len(ret) : NonNegVec(ret[k])
        /\ \A k \in 1 .. Len(reta) : NonNegVec(reta[k])

GridBuilt == pc # "idle" /\ args.t >= 0

Increasing(g) == \A i \in 1 .. Len(g) - 1 : RLess(g[i], g[i + 1])

Returned == pc \in {"plot", "done"}

\* C7 (as claimed): for every duration t >= 0 the grid has exactly t points,
\* strictly increasing, the first 0 and the last t, and the returned
\* trajectory has one row per grid point.
C7_GridSpansZeroToT ==
    GridBuilt =>
        /\ Len(t) = args.t
        /\ Increasing(t)
        /\ Len(t) >= 1
        /\ t[1] = R(0)
        /\ t[Len(t)] = R(args.t)
        /\ (Returned => Len(ret) = Len(t) /\ Len(reta) = Len(t))

\* C7 (amended): the grid has exactly t points and is strictly increasing;
\* for t >= 2 its first point is 0 and its last point is t; for t = 1 it is
\* the single point 0 and for t = 0 it is empty; a returned trajectory has
\* one row per grid point.
C7_GridOfTPoints ==
    GridBuilt =>
        /\ Len(t) = args.t
        /\ Increasing(t)
        /\ (args.t >= 2 => t[1] = R(0) /\ t[Len(t)] = R(args.t))
        /\ (args.t = 1 => t = <<R(0)>>)
        /\ (args.t = 0 => t = <<>>)
        /\ (Returned => Len(ret) = Len(t) /\ Len(reta) = Len(t))

C7_Witness ==
    /\ pc = "done"
    /\ args.t = 3
    /\ t = <<R(0), <<3, 2>>, R(3)>>
    /\ Len(ret) = 3 /\ Len(reta) = 3

\* C8: when mu = 0 and q = 0 and the initial compartments are nonnegative,
\* the R component of the derivative is >= 0 at every reached state and the
\* R series never falls, in both variants.
C8_RecoveredNeverFalls ==
    (Built /\ args.mu = R(0) /\ args.q = R(0)
           /\ args.N - args.I0 - args.R0 - args.E0 >= 0) =>
        /\ LET dR == dbase(y)[4]
               dRa == dadd(ya)[6]
           IN  /\ RNonNeg(dR)
               /\ RNonNeg(dRa)
               /\ dR = RMul(args.gamma, y[3])
               /\ dRa = RMul(args.gamma, RAdd(ya[3], ya[5]))
        /\ NonDecreasing(ret, 4)
        /\ NonDecreasing(reta, 6)

C8_Witness ==
    /\ pc = "done"
    /\ args.mu = R(0) /\ args.q = R(0)
    /\ args.N - args.I0 - args.R0 - args.E0 >= 0
    /\ args.gamma # R(0) /\ args.beta # R(0) /\ args.sigma # R(0)
    /\ nsteps >= 1
    /\ Len(ret) >= 2
    /\ RLess(ret[1][4], ret[2][4])
    /\ RLess(reta[1][6], reta[2][6])
    /\ dbase(y)[4][1] > 0

Invalid == args.N <= 0 \/ args.t <= 0

\* C9 (as claimed): a call with an invalid parameter (N <= 0 or t <= 0; the
\* rates explored are all >= 0) ends in a failure: it never reaches the
\* integrator and no row of a trajectory is produced.
C9_InvalidParameterFails ==
    (pc # "idle" /\ Invalid) =>
        /\ pc # "odeint"
        /\ ret = <<>> /\ reta = <<>>

\* C10: at a state with E = 0 and I = 0 the E and I components of the
\* derivative are exactly 0 whatever S, R, QE, QI and the rates are, and a
\* step from such a state leaves E = 0 and I = 0, in both variants.
C10_InfectionFreeIsAbsorbing ==
    /\ []((y[2] = R(0) /\ y[3] = R(0)) =>
            (dbase(y)[2] = R(0) /\ dbase(y)[3] = R(0)))
    /\ []((ya[2] = R(0) /\ ya[3] = R(0)) =>
            (dadd(ya)[2] = R(0) /\ dadd(ya)[3] = R(0)))
    /\ [][(y[2] = R(0) /\ y[3] = R(0)) =>
            (y'[2] = R(0) /\ y'[3] = R(0))]_vars
    /\ [][(ya[2] = R(0) /\ ya[3] = R(0)) =>
            (ya'[2] = R(0) /\ ya'[3] = R(0))]_vars

C10_Witness ==
    /\ nsteps >= 1
    /\ y[2] = R(0) /\ y[3] = R(0)
    /\ ya[2] = R(0) /\ ya[3] = R(0)
    /\ ya[4] # R(0) /\ ya[5] # R(0)
    /\ ya[1] # R(0) /\ ya[6] # R(0)
    /\ args.beta # R(0) /\ args.mu # R(0) /\ args.q # R(0)
    /\ args.sigma # R(0) /\ args.gamma # R(0)
====
